---- MODULE Spec2Model ----
(***************************************************************************)
(* vmfinder: a command-line front end over libvirt.  The model has parts   *)
(* that share no state:                                                    *)
(*   - the template store (src/vmfinder/template.py): a directory of       *)
(*     <stem>.yaml files and the TemplateManager's in-memory dictionary;   *)
(*   - the hypervisor session (src/vmfinder/vm_manager.py, cloud_init.py,  *)
(*     cli.py): the domains libvirt knows, their disk devices, and the     *)
(*     qcow2 files in the storage directory;                               *)
(*   - what vm list and vm info last reported (shown), the <vcpu> and      *)
(*     <numatune> elements of each domain (vcpus), and the ISO tools of    *)
(*     the host with the ISO files made (isofs).                           *)
(* Template names and file stems are the integers 1..MaxTNames; VM names   *)
(* are strings.  A domain carries one device list, which dom.XMLDesc(0)    *)
(* and conn.defineXML read and write; its <vcpu>/<numatune> elements are   *)
(* kept twice, as the live and as the persistent document.  Every          *)
(* hypervisor call may raise libvirtError, in which case it changes        *)
(* nothing.                                                                *)
(***************************************************************************)
EXTENDS Integers, Sequences, FiniteSets, TLC

VARIABLES tdir, templates, tlast, domains, disks, last, shown, vcpus, isofs

vars == <<tdir, templates, tlast, domains, disks, last, shown, vcpus, isofs>>

\* State of the parts modelled further down: what the last query returned,
\* the <vcpu>/<numatune> part of each domain's XML, and the ISO tools.
others == <<shown, vcpus, isofs>>

(***************************************************************************)
(* Bounds                                                                  *)
(***************************************************************************)
MaxTNames == 2

MaxCdroms == 2

\* The state codes the hypervisor may report are 0..MaxStateCode, one more
\* than libvirt names so that an unnamed code occurs.
MaxStateCode == 8

\* The largest vCPU maximum a domain starts with; set-cpu asks for up to
\* one more.
MaxCpu == 2

(***************************************************************************)
(* Template store                                                          *)
(***************************************************************************)
TNames == 1..MaxTNames

Bodies == {"A", "B"}

\* A parsed template: 'name' is 0 when the mapping has no 'name' key.
Tmpl(n, b) == [kind |-> "tmpl", name |-> n, body |-> b]

\* No file / no dictionary entry.
None == [kind |-> "none", name |-> 0, body |-> "none"]

\* A .yaml file that yaml.safe_load cannot turn into a mapping.
BadFile == [kind |-> "bad", name |-> 0, body |-> "none"]

TemplateValues == {Tmpl(n, b) : n \in 0..MaxTNames, b \in Bodies}

FileValues == {None, BadFile} \cup TemplateValues

\* template.get('name', template_file.stem)
TemplateNameOf(stem, t) == IF t.name = 0 THEN stem ELSE t.name

\* The files of the directory that _load_templates stores under name n.
Claimants(dir, n) ==
    {s \in TNames : dir[s].kind = "tmpl" /\ TemplateNameOf(s, dir[s]) = n}

\* Every dictionary _load_templates can build: glob() yields the files in
\* an order the file system picks, and the last file claiming a name wins.
load_templates(dir) ==
    {m \in [TNames -> {None} \cup TemplateValues] :
        \A n \in TNames :
            IF Claimants(dir, n) = {}
            THEN m[n] = None
            ELSE \E s \in Claimants(dir, n) : m[n] = dir[s]}

\* TemplateManager.get_template on the dictionary m (None when absent).
get_template(m, name) == m[name]

\* TemplateManager.list_templates on the dictionary m: the names listed.
list_templates(m) == {n \in TNames : m[n] # None}

\* template.setdefault('name', name): a 'name' the caller gave is kept.
Named_KeepsGivenName(name, t) ==
    IF t.name = 0 THEN [t EXCEPT !.name = name] ELSE t

\* template['name'] = name; the dumped file and the dictionary entry.
Named(name, t) == [t EXCEPT !.name = name]

\* TemplateManager.create_template: the directory and dictionary afterwards.
create_template(dir, m, name, t) ==
    [dir |-> [dir EXCEPT ![name] = Named(name, t)],
     m |-> [m EXCEPT ![name] = Named(name, t)],
     ret |-> "None"]

\* TemplateManager.delete_template
delete_template(dir, m, name) ==
    IF dir[name] # None
    THEN [dir |-> [dir EXCEPT ![name] = None],
          m |-> [m EXCEPT ![name] = None],
          ret |-> "True"]
    ELSE [dir |-> dir, m |-> m, ret |-> "False"]

(***************************************************************************)
(* Hypervisor (libvirt) state                                              *)
(***************************************************************************)
VMNames == {"web", "cidata-vm"}

\* VM names containing the substring 'cidata'.
CidataNames == {"cidata-vm"}

VIR_DOMAIN_NOSTATE == 0

VIR_DOMAIN_RUNNING == 1

VIR_DOMAIN_BLOCKED == 2

VIR_DOMAIN_PAUSED == 3

VIR_DOMAIN_SHUTDOWN == 4

VIR_DOMAIN_SHUTOFF == 5

VIR_DOMAIN_CRASHED == 6

VIR_DOMAIN_PMSUSPENDED == 7

StateCodes == VIR_DOMAIN_NOSTATE..VIR_DOMAIN_PMSUSPENDED

\* state_map.get(state_code, VMState.UNKNOWN).value
state_map(code) ==
    CASE code = VIR_DOMAIN_RUNNING -> "running"
      [] code = VIR_DOMAIN_BLOCKED -> "idle"
      [] code = VIR_DOMAIN_PAUSED -> "paused"
      [] code = VIR_DOMAIN_SHUTDOWN -> "shutdown"
      [] code = VIR_DOMAIN_SHUTOFF -> "shutoff"
      [] code = VIR_DOMAIN_CRASHED -> "crashed"
      [] code = VIR_DOMAIN_PMSUSPENDED -> "pmsuspended"
      [] OTHER -> "unknown"

\* storage_dir / f"{name}.qcow2"
disk_path(n) == [vm |-> n, file |-> ".qcow2"]

\* storage_dir / f"{name}-cloud-init.iso"
iso_path(n) == [vm |-> n, file |-> "-cloud-init.iso"]

\* 'cidata' in source.get('file', ''): the storage directory has no
\* 'cidata' in it, so the test is decided by the VM name inside the path.
ContainsCidata(path) == path.vm \in CidataNames

\* <disk type='file' device='disk'> ... <target dev='vda' bus='virtio'/>
PrimaryDisk(n) ==
    [type |-> "file", device |-> "disk", source |-> disk_path(n), target |-> "vda"]

\* <disk type='file' device='cdrom'> ... <target dev='hda' bus='ide'/>
Cdrom(path) ==
    [type |-> "file", device |-> "cdrom", source |-> path, target |-> "hda"]

NoDomain ==
    [exists |-> FALSE, state |-> VIR_DOMAIN_NOSTATE, pending |-> FALSE,
     persistent |-> FALSE, devices |-> <<>>]

\* dom.isActive(): the domain has a running instance.
isActive(d) == d.exists /\ d.state # VIR_DOMAIN_SHUTOFF

\* conn.lookupByName(name) succeeds.
vm_exists(D, n) == D[n].exists

\* The instance of a domain goes away; a transient domain goes with it.
Stopped(d) ==
    IF d.persistent
    THEN [d EXCEPT !.state = VIR_DOMAIN_SHUTOFF, !.pending = FALSE]
    ELSE NoDomain

\* dom.create()
HvCreate(D, n) == [D EXCEPT ![n].state = VIR_DOMAIN_RUNNING]

\* dom.destroy()
HvDestroy(D, n) == [D EXCEPT ![n] = Stopped(D[n])]

\* dom.shutdown(): only a request; the guest acts on it later.
HvShutdown(D, n) == [D EXCEPT ![n].pending = TRUE]

\* dom.suspend()
HvSuspend(D, n) == [D EXCEPT ![n].state = VIR_DOMAIN_PAUSED]

\* dom.resume()
HvResume(D, n) == [D EXCEPT ![n].state = VIR_DOMAIN_RUNNING]

\* dom.undefine(): an active domain lives on as a transient one.
HvUndefine(D, n) ==
    IF isActive(D[n])
    THEN [D EXCEPT ![n].persistent = FALSE]
    ELSE [D EXCEPT ![n] = NoDomain]

\* conn.defineXML(xml): defines the domain, or replaces its configuration.
HvDefine(D, n, devs) ==
    IF D[n].exists
    THEN [D EXCEPT ![n].persistent = TRUE, ![n].devices = devs]
    ELSE [D EXCEPT ![n] = [exists |-> TRUE, state |-> VIR_DOMAIN_SHUTOFF,
                           pending |-> FALSE, persistent |-> TRUE,
                           devices |-> devs]]

\* What a manager method did: the hypervisor afterwards, the value returned
\* or the exception raised, the hypervisor calls issued in order, and the
\* device list of the XML handed to defineXML (if any).
Res(D, ret, calls, xml) == [D |-> D, ret |-> ret, calls |-> calls, xml |-> xml]

(***************************************************************************)
(* VMManager methods.  fail is the position (in order of issue) of the     *)
(* hypervisor call that raises libvirtError, 0 when none does.             *)
(***************************************************************************)
\* VMManager.get_vm_info: None (here "none") for a missing domain.
get_vm_info(D, n) ==
    IF ~vm_exists(D, n) THEN "none" ELSE state_map(D[n].state)

\* Variant: the lookup that guards against an existing name is left out.
create_vm_NoExistsCheck(D, n, fail) ==
    IF fail = 1
    THEN Res(D, "RuntimeError", <<"defineXML">>, <<PrimaryDisk(n)>>)
    ELSE Res(HvDefine(D, n, <<PrimaryDisk(n)>>), "True",
             <<"defineXML">>, <<PrimaryDisk(n)>>)

create_vm(D, n, fail) ==
    IF vm_exists(D, n) THEN Res(D, "ValueError", <<>>, <<>>)
    ELSE IF fail = 1
         THEN Res(D, "RuntimeError", <<"defineXML">>, <<PrimaryDisk(n)>>)
         ELSE Res(HvDefine(D, n, <<PrimaryDisk(n)>>), "True",
                  <<"defineXML">>, <<PrimaryDisk(n)>>)

\* Variant: no isActive() test before create().
start_vm_NoActiveCheck(D, n, fail) ==
    IF ~vm_exists(D, n) THEN Res(D, "RuntimeError", <<>>, <<>>)
    ELSE IF fail = 1 THEN Res(D, "RuntimeError", <<"create">>, <<>>)
    ELSE Res(HvCreate(D, n), "True", <<"create">>, <<>>)

start_vm(D, n, fail) ==
    IF ~vm_exists(D, n) THEN Res(D, "RuntimeError", <<>>, <<>>)
    ELSE IF isActive(D[n]) THEN Res(D, "False", <<>>, <<>>)
    ELSE IF fail = 1 THEN Res(D, "RuntimeError", <<"create">>, <<>>)
    ELSE Res(HvCreate(D, n), "True", <<"create">>, <<>>)

\* Variant: force is ignored and shutdown() is always used.
stop_vm_IgnoresForce(D, n, force, fail) ==
    IF ~vm_exists(D, n) THEN Res(D, "RuntimeError", <<>>, <<>>)
    ELSE IF ~isActive(D[n]) THEN Res(D, "False", <<>>, <<>>)
    ELSE IF fail = 1 THEN Res(D, "RuntimeError", <<"shutdown">>, <<>>)
    ELSE Res(HvShutdown(D, n), "True", <<"shutdown">>, <<>>)

stop_vm(D, n, force, fail) ==
    IF ~vm_exists(D, n) THEN Res(D, "RuntimeError", <<>>, <<>>)
    ELSE IF ~isActive(D[n]) THEN Res(D, "False", <<>>, <<>>)
    ELSE IF force
         THEN IF fail = 1 THEN Res(D, "RuntimeError", <<"destroy">>, <<>>)
              ELSE Res(HvDestroy(D, n), "True", <<"destroy">>, <<>>)
         ELSE IF fail = 1 THEN Res(D, "RuntimeError", <<"shutdown">>, <<>>)
              ELSE Res(HvShutdown(D, n), "True", <<"shutdown">>, <<>>)

suspend_vm(D, n, fail) ==
    IF ~vm_exists(D, n) THEN Res(D, "RuntimeError", <<>>, <<>>)
    ELSE IF ~isActive(D[n]) THEN Res(D, "False", <<>>, <<>>)
    ELSE IF fail = 1 THEN Res(D, "RuntimeError", <<"suspend">>, <<>>)
    ELSE Res(HvSuspend(D, n), "True", <<"suspend">>, <<>>)

\* Variant: tests isActive() the way suspend_vm does, not the PAUSED state.
resume_vm_ActiveCheck(D, n, fail) ==
    IF ~vm_exists(D, n) THEN Res(D, "RuntimeError", <<>>, <<>>)
    ELSE IF ~isActive(D[n]) THEN Res(D, "False", <<>>, <<>>)
    ELSE IF fail = 1 THEN Res(D, "RuntimeError", <<"resume">>, <<>>)
    ELSE Res(HvResume(D, n), "True", <<"resume">>, <<>>)

resume_vm(D, n, fail) ==
    IF ~vm_exists(D, n) THEN Res(D, "RuntimeError", <<>>, <<>>)
    ELSE IF D[n].state # VIR_DOMAIN_PAUSED THEN Res(D, "False", <<>>, <<>>)
    ELSE IF fail = 1 THEN Res(D, "RuntimeError", <<"resume">>, <<>>)
    ELSE Res(HvResume(D, n), "True", <<"resume">>, <<>>)

\* Variant: undefine() without destroying an active domain first.
delete_vm_NoDestroy(D, n, fail) ==
    IF ~vm_exists(D, n) THEN Res(D, "RuntimeError", <<>>, <<>>)
    ELSE IF fail = 1 THEN Res(D, "RuntimeError", <<"undefine">>, <<>>)
    ELSE Res(HvUndefine(D, n), "True", <<"undefine">>, <<>>)

delete_vm(D, n, fail) ==
    IF ~vm_exists(D, n) THEN Res(D, "RuntimeError", <<>>, <<>>)
    ELSE IF isActive(D[n])
         THEN IF fail = 1 THEN Res(D, "RuntimeError", <<"destroy">>, <<>>)
              ELSE IF fail = 2
                   THEN Res(HvDestroy(D, n), "RuntimeError",
                            <<"destroy", "undefine">>, <<>>)
                   ELSE Res(HvUndefine(HvDestroy(D, n), n), "True",
                            <<"destroy", "undefine">>, <<>>)
         ELSE IF fail = 1 THEN Res(D, "RuntimeError", <<"undefine">>, <<>>)
              ELSE Res(HvUndefine(D, n), "True", <<"undefine">>, <<>>)

\* list_vms with a table that keeps libvirt's own word for BLOCKED.
list_vms_state_map_Blocked(code) ==
    IF code = VIR_DOMAIN_BLOCKED THEN "blocked" ELSE state_map(code)

\* The state_map dictionary list_vms builds for itself, with
\* .get(state_code, VMState.UNKNOWN).value
list_vms_state_map(code) ==
    IF code = VIR_DOMAIN_RUNNING THEN "running"
    ELSE IF code = VIR_DOMAIN_BLOCKED THEN "idle"
    ELSE IF code = VIR_DOMAIN_PAUSED THEN "paused"
    ELSE IF code = VIR_DOMAIN_SHUTDOWN THEN "shutdown"
    ELSE IF code = VIR_DOMAIN_SHUTOFF THEN "shutoff"
    ELSE IF code = VIR_DOMAIN_CRASHED THEN "crashed"
    ELSE IF code = VIR_DOMAIN_PMSUSPENDED THEN "pmsuspended"
    ELSE "unknown"

\* sorted(all_names): Python orders str by code point.
NameOrder == <<"cidata-vm", "web">>

\* conn.listDomainsID(): the active domains (an ID stands for its domain).
listDomainsID(D) == {n \in VMNames : isActive(D[n])}

\* conn.listDefinedDomains(): the defined domains that are not active.
listDefinedDomains(D) == {n \in VMNames : D[n].exists /\ ~isActive(D[n])}

\* The guest of domain n powers off while a command is running ("none": no
\* guest does).
PowerOff(D, n) ==
    IF n \in VMNames /\ isActive(D[n]) THEN [D EXCEPT ![n] = Stopped(D[n])]
    ELSE D

\* VMManager.list_vms.  D0, D1, D2: the hypervisor when listDomainsID, when
\* listDefinedDomains and when the lookups are answered; failId, failName:
\* the domains whose lookupByID, or lookupByName/info/state, raises
\* libvirtError for another reason than the domain being gone.
list_vms_rows(D0, D1, D2, failId, failName) ==
    LET domain_ids == listDomainsID(D0)
        domain_names == listDefinedDomains(D1)
        byId == {n \in domain_ids : isActive(D2[n]) /\ n \notin failId}
        all_names == byId \cup domain_names
        Listed(n) == n \in all_names
        Row(n) == IF D2[n].exists /\ n \notin failName
                  THEN [name |-> n, state |-> list_vms_state_map(D2[n].state)]
                  ELSE [name |-> n, state |-> "error"]
        sorted == SelectSeq(NameOrder, Listed)
    IN [ids |-> domain_ids, defined |-> domain_names,
        rows |-> [i \in 1..Len(sorted) |-> Row(sorted[i])]]

\* VMManager.list_vms: the names of the entries it returns from a
\* hypervisor that answers every call and does not change meanwhile.
list_vms(D) ==
    LET r == list_vms_rows(D, D, D, {}, {})
    IN {r.rows[i].name : i \in 1..Len(r.rows)}

(***************************************************************************)
(* CloudInitManager.attach_cloud_init_iso_to_vm                            *)
(***************************************************************************)
\* The disk elements the loop treats as the cloud-init CD-ROM.
IsCidataCdrom(dev) ==
    dev.type = "file" /\ dev.device = "cdrom" /\ ContainsCidata(dev.source)

\* Position of the first such element, 0 when there is none.
FirstCidataCdrom(devs) ==
    IF \E i \in 1..Len(devs) : IsCidataCdrom(devs[i])
    THEN CHOOSE i \in 1..Len(devs) :
            /\ IsCidataCdrom(devs[i])
            /\ \A j \in 1..(i - 1) : ~IsCidataCdrom(devs[j])
    ELSE 0

\* The device list of the XML the method hands to defineXML.
AttachedDevices(devs, iso) ==
    IF FirstCidataCdrom(devs) # 0
    THEN [devs EXCEPT ![FirstCidataCdrom(devs)] = Cdrom(iso)]
    ELSE Append(devs, Cdrom(iso))

attach_cloud_init_iso_to_vm(D, n, iso, fail) ==
    IF ~vm_exists(D, n) THEN Res(D, "libvirtError", <<>>, <<>>)
    ELSE IF fail = 1
         THEN Res(D, "libvirtError", <<"defineXML">>,
                  AttachedDevices(D[n].devices, iso))
         ELSE Res(HvDefine(D, n, AttachedDevices(D[n].devices, iso)), "None",
                  <<"defineXML">>, AttachedDevices(D[n].devices, iso))

(***************************************************************************)
(* DiskManager (vmfinder/disk.py): qcow2 files in the storage directory.   *)
(***************************************************************************)
\* DiskManager.create_disk / CloudImageManager.create_disk_from_cloud_image
create_disk(K, n) == [K EXCEPT ![n] = TRUE]

\* DiskManager.delete_disk
delete_disk(K, n) == [K EXCEPT ![n] = FALSE]

(***************************************************************************)
(* History: what the last command did (op "hypervisor" when the last step  *)
(* was an event inside the hypervisor).                                    *)
(***************************************************************************)
\* The positions at which a call of the run r can be made to fail.
FailChoices(r) == 0..Len(r.calls)

IsError(ret) == ret \in {"ValueError", "RuntimeError", "libvirtError"}

ExitOf(ret) == IF IsError(ret) THEN 1 ELSE 0

Done(op, n, force, ret, exit, calls, xml) ==
    [op |-> op, name |-> n, force |-> force, ret |-> ret, exit |-> exit,
     calls |-> calls, xml |-> xml]

HvDone(n) == Done("hypervisor", n, FALSE, "None", 0, <<>>, <<>>)

\* The parts of the state a specification does not exercise stay at these
\* values: no query made, no <vcpu> XML recorded, no ISO tool run.
NoQuery == [op |-> "none", name |-> "web", ids |-> {}, defined |-> {},
            rows |-> <<>>]

NoVcpu == [placement |-> "none", numa |-> "none", text |-> 0, current |-> 0]

NoVcpus == [n \in VMNames |-> [live |-> NoVcpu, config |-> NoVcpu]]

NoIso == [op |-> "none", genisoimage |-> FALSE, mkisofs |-> FALSE,
          files |-> {}, out |-> "none", ret |-> "None", runs |-> <<>>]

OthersIdle ==
    /\ shown = NoQuery
    /\ vcpus = NoVcpus
    /\ isofs = NoIso

Init ==
    /\ OthersIdle
    /\ tdir = [s \in TNames |-> None]
    /\ templates = [n \in TNames |-> None]
    /\ tlast = [op |-> "none", name |-> 0, arg |-> None, ret |-> "None"]
    /\ domains = [n \in VMNames |-> NoDomain]
    /\ disks = [n \in VMNames |-> FALSE]
    /\ last = [op |-> "none", name |-> "web", force |-> FALSE, ret |-> "None",
               exit |-> 0, calls |-> <<>>, xml |-> <<>>]

(***************************************************************************)
(* Commands of the CLI: each is one run of the handler.                    *)
(***************************************************************************)
\* A direct call of VMManager.create_vm.
define_vm(n) ==
    \E fail \in FailChoices(create_vm(domains, n, 0)) :
        LET r == create_vm(domains, n, fail) IN
        /\ domains' = r.D
        /\ last' = Done("create_vm", n, FALSE, r.ret, ExitOf(r.ret), r.calls, r.xml)
        /\ UNCHANGED <<tdir, templates, tlast, disks, others>>

vm_start(n) ==
    \E fail \in FailChoices(start_vm(domains, n, 0)) :
        LET r == start_vm(domains, n, fail) IN
        /\ domains' = r.D
        /\ last' = Done("start_vm", n, FALSE, r.ret, ExitOf(r.ret), r.calls, r.xml)
        /\ UNCHANGED <<tdir, templates, tlast, disks, others>>

vm_stop(n) ==
    \E force \in BOOLEAN, fail \in FailChoices(stop_vm(domains, n, FALSE, 0)) :
        LET r == stop_vm(domains, n, force, fail) IN
        /\ domains' = r.D
        /\ last' = Done("stop_vm", n, force, r.ret, ExitOf(r.ret), r.calls, r.xml)
        /\ UNCHANGED <<tdir, templates, tlast, disks, others>>

vm_suspend(n) ==
    \E fail \in FailChoices(suspend_vm(domains, n, 0)) :
        LET r == suspend_vm(domains, n, fail) IN
        /\ domains' = r.D
        /\ last' = Done("suspend_vm", n, FALSE, r.ret, ExitOf(r.ret), r.calls, r.xml)
        /\ UNCHANGED <<tdir, templates, tlast, disks, others>>

vm_resume(n) ==
    \E fail \in FailChoices(resume_vm(domains, n, 0)) :
        LET r == resume_vm(domains, n, fail) IN
        /\ domains' = r.D
        /\ last' = Done("resume_vm", n, FALSE, r.ret, ExitOf(r.ret), r.calls, r.xml)
        /\ UNCHANGED <<tdir, templates, tlast, disks, others>>

\* vm delete NAME [--delete-disk]
vm_delete(n) ==
    \E delete_disk_flag \in BOOLEAN, fail \in FailChoices(delete_vm(domains, n, 0)),
       diskFail \in BOOLEAN :
        LET r == delete_vm(domains, n, fail) IN
        /\ domains' = r.D
        /\ disks' = IF r.ret = "True" /\ delete_disk_flag /\ ~diskFail
                    THEN delete_disk(disks, n) ELSE disks
        /\ last' = Done("delete_vm", n, delete_disk_flag, r.ret,
                        IF IsError(r.ret) \/ (delete_disk_flag /\ diskFail)
                        THEN 1 ELSE 0,
                        r.calls, r.xml)
        /\ UNCHANGED <<tdir, templates, tlast, others>>

\* The guest finishes a requested shutdown.
CompleteShutdown(D, n) == [D EXCEPT ![n] = Stopped(D[n])]

\* vm restart NAME [--force].  raced: the guest finished the requested
\* shutdown between the stop and the start.
restart(D, n, force, fail1, fail2, raced) ==
    IF get_vm_info(D, n) = "none" THEN Res(D, "not_found", <<>>, <<>>)
    ELSE
      LET s == IF get_vm_info(D, n) = "running"
               THEN stop_vm(D, n, force, fail1)
               ELSE Res(D, "skipped", <<>>, <<>>)
          D1 == IF raced /\ s.D[n].exists /\ s.D[n].pending
                       /\ s.D[n].state = VIR_DOMAIN_RUNNING
                THEN CompleteShutdown(s.D, n) ELSE s.D
          t == start_vm(D1, n, fail2)
      IN IF IsError(s.ret) THEN s
         ELSE Res(t.D, t.ret, s.calls \o t.calls, <<>>)

vm_restart(n) ==
    \E force \in BOOLEAN, fail1 \in 0..1, fail2 \in 0..1, raced \in BOOLEAN :
        LET r == restart(domains, n, force, fail1, fail2, raced) IN
        /\ domains' = r.D
        /\ last' = Done("vm_restart", n, force, r.ret,
                        IF IsError(r.ret) \/ r.ret = "not_found" THEN 1 ELSE 0,
                        r.calls, r.xml)
        /\ UNCHANGED <<tdir, templates, tlast, disks, others>>

\* vm create NAME: what is done about a VM or disk that is already there
\* (cli.py 181-223).  go is FALSE when the user declines the confirmation;
\* failures of either removal are swallowed.
\* Variant: the old VM and disk are removed before the user is asked.
Overwrite_DeleteBeforeConfirm(D, K, n, force, confirm, failVm, failDisk) ==
    IF ~(vm_exists(D, n) \/ K[n]) THEN [go |-> TRUE, D |-> D, K |-> K, calls |-> <<>>]
    ELSE [go |-> force \/ confirm,
          D |-> IF vm_exists(D, n) THEN delete_vm(D, n, failVm).D ELSE D,
          K |-> IF K[n] /\ ~failDisk THEN delete_disk(K, n) ELSE K,
          calls |-> IF vm_exists(D, n) THEN delete_vm(D, n, failVm).calls ELSE <<>>]

Overwrite(D, K, n, force, confirm, failVm, failDisk) ==
    IF ~(vm_exists(D, n) \/ K[n]) THEN [go |-> TRUE, D |-> D, K |-> K, calls |-> <<>>]
    ELSE IF ~force /\ ~confirm THEN [go |-> FALSE, D |-> D, K |-> K, calls |-> <<>>]
    ELSE [go |-> TRUE,
          D |-> IF vm_exists(D, n) THEN delete_vm(D, n, failVm).D ELSE D,
          K |-> IF K[n] /\ ~failDisk THEN delete_disk(K, n) ELSE K,
          calls |-> IF vm_exists(D, n) THEN delete_vm(D, n, failVm).calls ELSE <<>>]

\* vm create NAME: the cloud-init step after a successful create_vm
\* (cli.py 264-325); failures are reported as warnings only.
CloudInitStep(D, n, use_cloud_image, isoOk, failAttach) ==
    IF use_cloud_image /\ isoOk
    THEN attach_cloud_init_iso_to_vm(D, n, iso_path(n), failAttach)
    ELSE Res(D, "None", <<>>, <<>>)

\* The result of one run of a command that touches domains and disk files.
Run(D, K, ret, exit, calls, xml) ==
    [D |-> D, K |-> K, ret |-> ret, exit |-> exit, calls |-> calls, xml |-> xml]

\* Variant of vm create that defines the domain first and creates the disk
\* image afterwards.
create_command_DefineFirst(D, K, n, tmpl, auto_install, force, confirm, failVm, failDisk, diskOutcome, failDefine, cloudInit) ==
    LET use_cloud_image == auto_install /\ tmpl = "cloud"
        c == Overwrite(D, K, n, force, confirm, failVm, failDisk)
        r == create_vm(c.D, n, failDefine)
        a == CloudInitStep(r.D, n, use_cloud_image, cloudInit # "iso_failed",
                           IF cloudInit = "attach_failed" THEN 1 ELSE 0)
    IN IF tmpl = "missing" THEN Run(D, K, "no_template", 1, <<>>, <<>>)
       ELSE IF ~c.go THEN Run(c.D, c.K, "declined", 0, c.calls, <<>>)
       ELSE IF r.ret # "True"
            THEN Run(r.D, c.K, r.ret, 1, c.calls \o r.calls, r.xml)
       ELSE IF diskOutcome = "fail" \/ (diskOutcome = "fallback" /\ ~use_cloud_image)
            THEN Run(r.D, c.K, "disk_failed", 1, c.calls \o r.calls, r.xml)
       ELSE Run(a.D, create_disk(c.K, n), "created", 0,
                c.calls \o r.calls \o a.calls,
                IF a.calls = <<>> THEN r.xml ELSE a.xml)

\* vm create NAME --template T [--no-auto-install] [--force]
\*   tmpl: "missing", "plain" or "cloud" (cloud_image_support is set);
\*   confirm: the answer to "Delete and recreate?";
\*   diskOutcome: "ok", "fallback" (the download raised ValueError and the
\*   empty disk was created instead) or "fail";
\*   cloudInit: "iso_failed", "attach_failed" or "attached".
create_command(D, K, n, tmpl, auto_install, force, confirm, failVm, failDisk, diskOutcome, failDefine, cloudInit) ==
    LET use_cloud_image == auto_install /\ tmpl = "cloud"
        c == Overwrite(D, K, n, force, confirm, failVm, failDisk)
        r == create_vm(c.D, n, failDefine)
        a == CloudInitStep(r.D, n, use_cloud_image, cloudInit # "iso_failed",
                           IF cloudInit = "attach_failed" THEN 1 ELSE 0)
    IN IF tmpl = "missing" THEN Run(D, K, "no_template", 1, <<>>, <<>>)
       ELSE IF ~c.go THEN Run(c.D, c.K, "declined", 0, c.calls, <<>>)
       ELSE IF diskOutcome = "fail" \/ (diskOutcome = "fallback" /\ ~use_cloud_image)
            THEN Run(c.D, c.K, "disk_failed", 1, c.calls, <<>>)
       ELSE IF r.ret # "True"
            THEN Run(r.D, create_disk(c.K, n), r.ret, 1, c.calls \o r.calls, r.xml)
       ELSE Run(a.D, create_disk(c.K, n), "created", 0,
                c.calls \o r.calls \o a.calls,
                IF a.calls = <<>> THEN r.xml ELSE a.xml)

vm_create(n) ==
    \* each input is drawn only where the run gets to use it
    \E tmpl \in {"missing", "plain", "cloud"}, auto_install \in BOOLEAN,
       force \in BOOLEAN :
    \E confirm \in IF tmpl # "missing" /\ (vm_exists(domains, n) \/ disks[n]) /\ ~force
                    THEN BOOLEAN ELSE {TRUE} :
    \E failVm \in IF tmpl # "missing" /\ confirm
                   THEN FailChoices(delete_vm(domains, n, 0)) ELSE {0},
       failDisk \in IF tmpl # "missing" /\ confirm /\ disks[n]
                     THEN BOOLEAN ELSE {FALSE},
       diskOutcome \in IF tmpl # "missing" /\ confirm
                        THEN IF auto_install /\ tmpl = "cloud"
                             THEN {"ok", "fallback", "fail"} ELSE {"ok", "fail"}
                        ELSE {"ok"} :
    \E failDefine \in IF tmpl # "missing" /\ confirm /\ diskOutcome # "fail"
                       THEN 0..1 ELSE {0} :
    \E cloudInit \in IF tmpl = "cloud" /\ auto_install /\ confirm
                         /\ diskOutcome # "fail" /\ failDefine = 0
                      THEN {"iso_failed", "attach_failed", "attached"}
                      ELSE {"attached"} :
        LET r == create_command(domains, disks, n, tmpl, auto_install, force,
                                confirm, failVm, failDisk, diskOutcome,
                                failDefine, cloudInit) IN
        /\ domains' = r.D
        /\ disks' = r.K
        /\ last' = Done("vm_create", n, force, r.ret, r.exit, r.calls, r.xml)
        /\ UNCHANGED <<tdir, templates, tlast, others>>

\* The device list stays bounded: no attach beyond MaxCdroms CD-ROMs.
CanAttach(D, n) == ~D[n].exists \/ Len(D[n].devices) <= MaxCdroms

\* vm set-password / vm fix-cloud-init share their shape: stop the VM if it
\* is running, build the ISO, attach it, maybe start the VM again.
cloud_init_command(D, n, startOpt, restartIfWasRunning, failStop, isoOk, failAttach, failStart) ==
    IF ~vm_exists(D, n) THEN Res(D, "not_found", <<>>, <<>>)
    ELSE
      LET was_running == get_vm_info(D, n) = "running"
          s == IF was_running THEN stop_vm(D, n, TRUE, failStop)
               ELSE Res(D, "skipped", <<>>, <<>>)
          a == attach_cloud_init_iso_to_vm(s.D, n, iso_path(n), failAttach)
          doStart == startOpt \/ (restartIfWasRunning /\ was_running /\ ~IsError(s.ret))
          t == IF doStart THEN start_vm(a.D, n, failStart)
               ELSE Res(a.D, "None", <<>>, <<>>)
      IN IF ~isoOk THEN Res(s.D, "RuntimeError", s.calls, <<>>)
         ELSE IF IsError(a.ret) THEN Res(a.D, a.ret, s.calls \o a.calls, a.xml)
         ELSE Res(t.D, IF IsError(t.ret) THEN t.ret ELSE "None",
                  s.calls \o a.calls \o t.calls, a.xml)

vm_set_password(n) ==
    /\ CanAttach(domains, n)
    /\ \E start \in BOOLEAN,
          failStop \in FailChoices(stop_vm(domains, n, TRUE, 0)),
          isoOk \in IF vm_exists(domains, n) THEN BOOLEAN ELSE {TRUE} :
       \E failAttach \in IF vm_exists(domains, n) /\ isoOk THEN 0..1 ELSE {0} :
       \E failStart \in IF vm_exists(domains, n) /\ isoOk /\ failAttach = 0
                         THEN 0..1 ELSE {0} :
        LET r == cloud_init_command(domains, n, start, FALSE,
                                    failStop, isoOk, failAttach, failStart) IN
        /\ domains' = r.D
        /\ last' = Done("vm_set_password", n, start, r.ret,
                        IF r.ret = "None" THEN 0 ELSE 1, r.calls, r.xml)
        /\ UNCHANGED <<tdir, templates, tlast, disks, others>>

vm_fix_cloud_init(n) ==
    /\ CanAttach(domains, n)
    /\ \E start \in BOOLEAN,
          failStop \in FailChoices(stop_vm(domains, n, TRUE, 0)),
          isoOk \in IF vm_exists(domains, n) THEN BOOLEAN ELSE {TRUE} :
       \E failAttach \in IF vm_exists(domains, n) /\ isoOk THEN 0..1 ELSE {0} :
       \E failStart \in IF vm_exists(domains, n) /\ isoOk /\ failAttach = 0
                         THEN 0..1 ELSE {0} :
        LET r == cloud_init_command(domains, n, start, TRUE,
                                    failStop, isoOk, failAttach, failStart) IN
        /\ domains' = r.D
        /\ last' = Done("vm_fix_cloud_init", n, start, r.ret,
                        IF r.ret = "None" THEN 0 ELSE 1, r.calls, r.xml)
        /\ UNCHANGED <<tdir, templates, tlast, disks, others>>

(***************************************************************************)
(* The hypervisor and the guests act on their own.                         *)
(***************************************************************************)
\* A running guest completes the shutdown that dom.shutdown() requested.
HvCompleteShutdown(n) ==
    /\ domains[n].exists /\ domains[n].pending
    /\ domains[n].state \in {VIR_DOMAIN_RUNNING, VIR_DOMAIN_SHUTDOWN}
    /\ domains' = CompleteShutdown(domains, n)
    /\ last' = HvDone(n)
    /\ UNCHANGED <<tdir, templates, tlast, disks, others>>

\* A running guest blocks, crashes, sleeps or starts shutting down.
HvGuestEvent(n) ==
    /\ domains[n].exists /\ domains[n].state = VIR_DOMAIN_RUNNING
    /\ \E s \in {VIR_DOMAIN_BLOCKED, VIR_DOMAIN_CRASHED, VIR_DOMAIN_PMSUSPENDED,
                 VIR_DOMAIN_SHUTDOWN} :
         /\ s = VIR_DOMAIN_SHUTDOWN => domains[n].pending
         /\ domains' = [domains EXCEPT ![n].state = s]
    /\ last' = HvDone(n)
    /\ UNCHANGED <<tdir, templates, tlast, disks, others>>

(***************************************************************************)
(* Spec: the life cycle of domains (define, start, stop, suspend, resume,  *)
(* restart, delete) together with what the hypervisor does on its own.     *)
(***************************************************************************)
Next ==
    \E n \in VMNames :
        \/ define_vm(n)
        \/ vm_start(n)
        \/ vm_stop(n)
        \/ vm_suspend(n)
        \/ vm_resume(n)
        \/ vm_restart(n)
        \/ vm_delete(n)
        \/ HvCompleteShutdown(n)
        \/ HvGuestEvent(n)

Spec == Init /\ [][Next]_vars

(***************************************************************************)
(* SpecProvision: creating VMs with their disks and cloud-init CD-ROMs.    *)
(***************************************************************************)
NextProvision ==
    \E n \in VMNames :
        \/ vm_create(n)
        \/ vm_set_password(n)
        \/ vm_fix_cloud_init(n)
        \/ vm_start(n)
        \/ vm_delete(n)

SpecProvision == Init /\ [][NextProvision]_vars

(***************************************************************************)
(* SpecTemplates: one templates directory, found in any condition (files   *)
(* written by hand included), and TemplateManager objects working on it.   *)
(***************************************************************************)
InitTemplates ==
    /\ OthersIdle
    /\ tdir \in [TNames -> FileValues]
    /\ templates \in load_templates(tdir)
    /\ tlast = [op |-> "init", name |-> 0, arg |-> None, ret |-> "None"]
    /\ domains = [n \in VMNames |-> NoDomain]
    /\ disks = [n \in VMNames |-> FALSE]
    /\ last = [op |-> "none", name |-> "web", force |-> FALSE, ret |-> "None",
               exit |-> 0, calls |-> <<>>, xml |-> <<>>]

\* TemplateManager(templates_dir): a new manager replaces the old one.
TemplateManager_init ==
    /\ templates' \in load_templates(tdir)
    /\ tlast' = [op |-> "init", name |-> 0, arg |-> None, ret |-> "None"]
    /\ UNCHANGED <<tdir, domains, disks, last, others>>

template_create(name) ==
    \E t \in TemplateValues :
        LET r == create_template(tdir, templates, name, t) IN
        /\ tdir' = r.dir
        /\ templates' = r.m
        /\ tlast' = [op |-> "create_template", name |-> name, arg |-> t,
                     ret |-> r.ret]
        /\ UNCHANGED <<domains, disks, last, others>>

template_delete(name) ==
    LET r == delete_template(tdir, templates, name) IN
    /\ tdir' = r.dir
    /\ templates' = r.m
    /\ tlast' = [op |-> "delete_template", name |-> name, arg |-> None,
                 ret |-> r.ret]
    /\ UNCHANGED <<domains, disks, last, others>>

NextTemplates ==
    \/ TemplateManager_init
    \/ \E name \in TNames : template_create(name)
    \/ \E name \in TNames : template_delete(name)

SpecTemplates == InitTemplates /\ [][NextTemplates]_vars

(***************************************************************************)
(* SpecQuery: vm list and vm info against a hypervisor whose domains are   *)
(* in any state, with guests that power off while a listing is under way.  *)
(***************************************************************************)
QueryDomains ==
    {NoDomain} \cup
    {d \in [exists : {TRUE}, state : 0..MaxStateCode, pending : BOOLEAN,
            persistent : BOOLEAN, devices : {<<>>}] :
        d.state = VIR_DOMAIN_SHUTOFF => d.persistent /\ ~d.pending}

InitQuery ==
    /\ OthersIdle
    /\ tdir = [s \in TNames |-> None]
    /\ templates = [n \in TNames |-> None]
    /\ tlast = [op |-> "none", name |-> 0, arg |-> None, ret |-> "None"]
    /\ domains \in [VMNames -> QueryDomains]
    /\ disks = [n \in VMNames |-> FALSE]
    /\ last = [op |-> "none", name |-> "web", force |-> FALSE, ret |-> "None",
               exit |-> 0, calls |-> <<>>, xml |-> <<>>]

\* vm list.  raised: listDomainsID or listDefinedDomains raises, which
\* list_vms does not catch.
vm_list ==
    \E raised \in BOOLEAN, mid1, mid2 \in VMNames \cup {"none"},
       failId, failName \in SUBSET VMNames :
        LET D1 == PowerOff(domains, mid1)
            D2 == PowerOff(D1, mid2)
            r == list_vms_rows(domains, D1, D2, failId, failName)
        IN /\ raised => mid1 = "none" /\ mid2 = "none" /\ failId = {}
                         /\ failName = {}
           /\ failId \subseteq r.ids
           /\ domains' = D2
           /\ shown' = IF raised
                       THEN [op |-> "list_vms_raised", name |-> "web",
                             ids |-> {}, defined |-> {}, rows |-> <<>>]
                       ELSE [op |-> "list_vms", name |-> "web", ids |-> r.ids,
                             defined |-> r.defined, rows |-> r.rows]
           /\ UNCHANGED <<tdir, templates, tlast, disks, last, vcpus, isofs>>

\* vm info NAME.  fail: a hypervisor call of get_vm_info raises
\* libvirtError, and get_vm_info returns None as for a missing domain.
vm_info(n) ==
    \E fail \in BOOLEAN :
        LET state == get_vm_info(domains, n)
        IN /\ shown' = [op |-> "get_vm_info", name |-> n, ids |-> {},
                        defined |-> {},
                        rows |-> IF fail \/ state = "none" THEN <<>>
                                 ELSE <<[name |-> n, state |-> state]>>]
           /\ UNCHANGED <<tdir, templates, tlast, domains, disks, last,
                          vcpus, isofs>>

NextQuery ==
    \/ vm_list
    \/ \E n \in VMNames : vm_info(n)
    \/ \E n \in VMNames : HvCompleteShutdown(n)
    \/ \E n \in VMNames : HvGuestEvent(n)

SpecQuery == InitQuery /\ [][NextQuery]_vars

(***************************************************************************)
(* SpecCpu: vm set-cpu on domains whose <vcpu> and <numatune> elements are *)
(* whatever their owner wrote.  A running domain has two documents, the    *)
(* live one and the persistent one; XMLDesc(0) answers with the live one.  *)
(***************************************************************************)
\* <vcpu placement=P current=C>T</vcpu> and <numatune><memory placement=M/>:
\* "none" is an absent attribute (or element), current 0 an absent 'current'.
VcpuXml ==
    {x \in [placement : {"auto", "static", "none"}, numa : {"auto", "none"},
            text : 1..MaxCpu, current : 0..MaxCpu] : x.current <= x.text}

\* dom.XMLDesc(0)
XMLDesc(D, V, n) == IF isActive(D[n]) THEN V[n].live ELSE V[n].config

\* A hypervisor call of set_cpu; xml is the document of a defineXML.
Op(call, xml) == [call |-> call, xml |-> xml]

\* What one hypervisor call of set_cpu does; ok is FALSE when libvirt
\* rejects it: undefining a domain that has no persistent definition,
\* setting more vCPUs than the maximum, live on an inactive domain or
\* config on a transient one.
ApplyOp(D, V, n, cpu, devs, op) ==
    IF op.call \in {"undefineFlags", "undefine"}
    THEN IF ~D[n].persistent THEN [ok |-> FALSE, D |-> D, V |-> V]
         ELSE [ok |-> TRUE, D |-> HvUndefine(D, n),
               V |-> IF isActive(D[n]) THEN [V EXCEPT ![n].config = NoVcpu]
                     ELSE [V EXCEPT ![n] = [live |-> NoVcpu, config |-> NoVcpu]]]
    ELSE IF op.call = "defineXML"
    THEN [ok |-> TRUE, D |-> HvDefine(D, n, devs),
          V |-> [V EXCEPT ![n].config = op.xml]]
    ELSE IF op.call = "setVcpusFlags(LIVE)"
    THEN IF ~isActive(D[n]) \/ cpu > V[n].live.text
         THEN [ok |-> FALSE, D |-> D, V |-> V]
         ELSE [ok |-> TRUE, D |-> D, V |-> [V EXCEPT ![n].live.current = cpu]]
    ELSE IF ~D[n].persistent \/ cpu > V[n].config.text
         THEN [ok |-> FALSE, D |-> D, V |-> V]
         ELSE [ok |-> TRUE, D |-> D, V |-> [V EXCEPT ![n].config.current = cpu]]

\* The calls ops[i..] issued in order; the fail-th call raises libvirtError,
\* as does a call libvirt rejects.  done: the calls issued, the raising one
\* included.
RECURSIVE RunOps(_, _, _, _, _, _, _, _)
RunOps(D, V, n, cpu, devs, ops, i, fail) ==
    IF i > Len(ops) THEN [ok |-> TRUE, D |-> D, V |-> V, done |-> Len(ops)]
    ELSE LET a == ApplyOp(D, V, n, cpu, devs, ops[i])
         IN IF i = fail \/ ~a.ok
            THEN [ok |-> FALSE, D |-> D, V |-> V, done |-> i]
            ELSE RunOps(a.D, a.V, n, cpu, devs, ops, i + 1, fail)

\* The placement fix of set_cpu (lines 353-367) applied to a document.
FixPlacement(x) ==
    [x EXCEPT !.placement = IF @ = "auto" THEN "static" ELSE @,
              !.numa = IF @ = "auto" THEN "none" ELSE @]

\* The hypervisor calls set_cpu(name, cpu) is going to issue.  The re-read
\* after the placement fix is XMLDesc(0) again: the live document of a
\* running domain, which the redefinition has not touched.
set_cpu_ops(D, V, n, cpu) ==
    LET xml_desc == XMLDesc(D, V, n)
        is_active == isActive(D[n])
        placement_fixed == xml_desc.placement = "auto" \/ xml_desc.numa = "auto"
        undef == Op(IF is_active THEN "undefineFlags" ELSE "undefine", NoVcpu)
        reread == IF placement_fixed /\ ~is_active THEN FixPlacement(xml_desc)
                  ELSE xml_desc
        maxvcpu == IF reread.current # 0 THEN reread.current ELSE reread.text
        raised == [reread EXCEPT !.text = cpu,
                     !.current = IF is_active THEN maxvcpu ELSE cpu,
                     !.placement = IF @ = "auto" THEN "static" ELSE @]
    IN [fix |-> IF placement_fixed
                THEN <<undef, Op("defineXML", FixPlacement(xml_desc))>>
                ELSE <<>>,
        max |-> IF cpu > maxvcpu THEN <<undef, Op("defineXML", raised)>>
                ELSE <<>>,
        set |-> IF cpu > maxvcpu /\ is_active THEN <<>>
                ELSE (IF is_active THEN <<Op("setVcpusFlags(LIVE)", NoVcpu)>>
                      ELSE <<>>)
                     \o <<Op("setVcpusFlags(CONFIG)", NoVcpu)>>,
        cannot_increase |-> cpu > maxvcpu /\ is_active]

\* VMManager.set_cpu.  ret: "True", "CannotIncrease" (the RuntimeError of
\* lines 419-426) or "RuntimeError" ("Failed to set CPU count").
set_cpu(D, V, n, cpu, fail) ==
    IF ~vm_exists(D, n) THEN [D |-> D, V |-> V, ret |-> "RuntimeError", calls |-> <<>>]
    ELSE LET p == set_cpu_ops(D, V, n, cpu)
             ops == p.fix \o p.max \o p.set
             r == RunOps(D, V, n, cpu, D[n].devices, ops, 1, fail)
         IN [D |-> r.D, V |-> r.V,
             ret |-> IF ~r.ok THEN "RuntimeError"
                     ELSE IF p.cannot_increase THEN "CannotIncrease"
                     ELSE "True",
             calls |-> [i \in 1..r.done |-> ops[i].call]]

InitCpu ==
    /\ shown = NoQuery
    /\ isofs = NoIso
    /\ tdir = [s \in TNames |-> None]
    /\ templates = [n \in TNames |-> None]
    /\ tlast = [op |-> "none", name |-> 0, arg |-> None, ret |-> "None"]
    /\ disks = [n \in VMNames |-> FALSE]
    /\ last = [op |-> "none", name |-> "web", force |-> FALSE, ret |-> "None",
               exit |-> 0, calls |-> <<>>, xml |-> <<>>]
    /\ \E running \in BOOLEAN, live, config \in VcpuXml :
        /\ domains = [n \in VMNames |->
              IF n = "web"
              THEN [exists |-> TRUE, pending |-> FALSE, persistent |-> TRUE,
                    devices |-> <<PrimaryDisk(n)>>,
                    state |-> IF running THEN VIR_DOMAIN_RUNNING
                              ELSE VIR_DOMAIN_SHUTOFF]
              ELSE NoDomain]
        /\ ~running => live = config
        /\ vcpus = [n \in VMNames |->
              IF n = "web"
              THEN [live |-> IF running THEN live ELSE NoVcpu, config |-> config]
              ELSE [live |-> NoVcpu, config |-> NoVcpu]]

\* vm set-cpu NAME CPU
vm_set_cpu(n) ==
    \E cpu \in 1..(MaxCpu + 1) :
    \E fail \in 0..Len(set_cpu(domains, vcpus, n, cpu, 0).calls) :
        LET r == set_cpu(domains, vcpus, n, cpu, fail) IN
        /\ domains' = r.D
        /\ vcpus' = r.V
        /\ last' = Done("set_cpu", n, FALSE, r.ret,
                        IF r.ret = "True" THEN 0 ELSE 1, r.calls, <<>>)
        /\ UNCHANGED <<tdir, templates, tlast, disks, shown, isofs>>

\* An inactive domain is started: its live document is the persistent one.
HvBoot(n) ==
    /\ domains[n].exists /\ ~isActive(domains[n])
    /\ domains' = HvCreate(domains, n)
    /\ vcpus' = [vcpus EXCEPT ![n].live = vcpus[n].config]
    /\ last' = HvDone(n)
    /\ UNCHANGED <<tdir, templates, tlast, disks, shown, isofs>>

\* A running domain powers off: the live document goes, and a domain left
\* without a persistent definition goes with it.
HvHalt(n) ==
    /\ isActive(domains[n])
    /\ domains' = HvDestroy(domains, n)
    /\ vcpus' = [vcpus EXCEPT ![n].live = NoVcpu]
    /\ last' = HvDone(n)
    /\ UNCHANGED <<tdir, templates, tlast, disks, shown, isofs>>

NextCpu ==
    \/ \E n \in VMNames : vm_set_cpu(n)
    \/ \E n \in VMNames : HvBoot(n)
    \/ \E n \in VMNames : HvHalt(n)

SpecCpu == InitCpu /\ [][NextCpu]_vars

(***************************************************************************)
(* SpecIso: create_cloud_init_iso on hosts with either, both or none of    *)
(* the ISO tools, each run of a tool ending as the host decides.           *)
(***************************************************************************)
\* output_path arguments: None, or a path of the caller's.
OutputPaths == {"None", "a.iso", "b.iso"}

\* tempfile.mktemp(suffix='.iso')
mktemp == "mktemp.iso"

\* How a subprocess.run(..., check=True) ends: exit status 0, a non-zero
\* exit status (CalledProcessError), or the tool cannot be executed (OSError).
RunOutcomes == {"ok", "nonzero", "oserror"}

ToolRun(tool, outcome) == [tool |-> tool, outcome |-> outcome]

\* Variant: a genisoimage failure without mkisofs to fall back on is let
\* pass, and the path is returned.
create_cloud_init_iso_NoRaise(genisoimage_cmd, mkisofs_cmd, output_path, run1, run2) ==
    LET out == IF output_path = "None" THEN mktemp ELSE output_path
        g == ToolRun("genisoimage", run1)
        m == ToolRun("mkisofs", run2)
    IN IF genisoimage_cmd
       THEN IF run1 = "ok" THEN [out |-> out, ret |-> out, runs |-> <<g>>]
            ELSE IF run1 = "oserror"
            THEN [out |-> out, ret |-> "OSError", runs |-> <<g>>]
            ELSE IF mkisofs_cmd
            THEN [out |-> out, runs |-> <<g, m>>,
                  ret |-> IF run2 = "ok" THEN out
                          ELSE IF run2 = "oserror" THEN "OSError"
                          ELSE "RuntimeError"]
            ELSE [out |-> out, ret |-> out, runs |-> <<g>>]
       ELSE IF mkisofs_cmd
       THEN [out |-> out, runs |-> <<m>>,
             ret |-> IF run2 = "ok" THEN out
                     ELSE IF run2 = "oserror" THEN "OSError"
                     ELSE "RuntimeError"]
       ELSE [out |-> out, ret |-> "RuntimeError", runs |-> <<>>]

\* CloudInitManager.create_cloud_init_iso: the path it writes to, what it
\* returns or raises, and the tool runs it made in order.  run1, run2: how
\* a run of genisoimage, of mkisofs, ends.
create_cloud_init_iso(genisoimage_cmd, mkisofs_cmd, output_path, run1, run2) ==
    LET out == IF output_path = "None" THEN mktemp ELSE output_path
        g == ToolRun("genisoimage", run1)
        m == ToolRun("mkisofs", run2)
    IN IF genisoimage_cmd
       THEN IF run1 = "ok" THEN [out |-> out, ret |-> out, runs |-> <<g>>]
            ELSE IF run1 = "oserror"
            THEN [out |-> out, ret |-> "OSError", runs |-> <<g>>]
            ELSE IF mkisofs_cmd
            THEN [out |-> out, runs |-> <<g, m>>,
                  ret |-> IF run2 = "ok" THEN out
                          ELSE IF run2 = "oserror" THEN "OSError"
                          ELSE "RuntimeError"]
            ELSE [out |-> out, ret |-> "RuntimeError", runs |-> <<g>>]
       ELSE IF mkisofs_cmd
       THEN [out |-> out, runs |-> <<m>>,
             ret |-> IF run2 = "ok" THEN out
                     ELSE IF run2 = "oserror" THEN "OSError"
                     ELSE "RuntimeError"]
       ELSE [out |-> out, ret |-> "RuntimeError", runs |-> <<>>]

InitIso ==
    /\ shown = NoQuery
    /\ vcpus = NoVcpus
    /\ tdir = [s \in TNames |-> None]
    /\ templates = [n \in TNames |-> None]
    /\ tlast = [op |-> "none", name |-> 0, arg |-> None, ret |-> "None"]
    /\ domains = [n \in VMNames |-> NoDomain]
    /\ disks = [n \in VMNames |-> FALSE]
    /\ last = [op |-> "none", name |-> "web", force |-> FALSE, ret |-> "None",
               exit |-> 0, calls |-> <<>>, xml |-> <<>>]
    /\ \E g, m \in BOOLEAN :
         isofs = [NoIso EXCEPT !.genisoimage = g, !.mkisofs = m]

\* A call of create_cloud_init_iso; a run that succeeds leaves the ISO file.
iso_create ==
    \E output_path \in OutputPaths, run1, run2 \in RunOutcomes :
        LET r == create_cloud_init_iso(isofs.genisoimage, isofs.mkisofs,
                                       output_path, run1, run2)
        IN /\ isofs' = [isofs EXCEPT
                 !.op = "create_cloud_init_iso", !.out = r.out,
                 !.ret = r.ret, !.runs = r.runs,
                 !.files = IF r.ret = r.out THEN @ \cup {r.out} ELSE @]
           /\ UNCHANGED <<tdir, templates, tlast, domains, disks, last, shown,
                          vcpus>>

\* The administrator installs or removes an ISO tool.
IsoToolChange ==
    \E g, m \in BOOLEAN :
        /\ <<g, m>> # <<isofs.genisoimage, isofs.mkisofs>>
        /\ isofs' = [isofs EXCEPT !.op = "host", !.genisoimage = g,
                                  !.mkisofs = m]
        /\ UNCHANGED <<tdir, templates, tlast, domains, disks, last, shown,
                       vcpus>>

\* temp_iso.unlink(), or shutil.move of it, by the caller.
IsoRemove ==
    \E f \in isofs.files :
        /\ isofs' = [isofs EXCEPT !.op = "host", !.files = @ \ {f}]
        /\ UNCHANGED <<tdir, templates, tlast, domains, disks, last, shown,
                       vcpus>>

NextIso ==
    \/ iso_create
    \/ IsoToolChange
    \/ IsoRemove

SpecIso == InitIso /\ [][NextIso]_vars

(***************************************************************************)
(* Claims                                                                  *)
(***************************************************************************)

\* C1 (SpecTemplates): every template name in the store identifies exactly
\* one template, and the file backing the template named N is N.yaml: N.yaml
\* is the only file of the directory that holds a template called N, and it
\* holds the template the manager returns for N.
C1_NameIdentifiesFile ==
    \A n \in TNames :
        get_template(templates, n) # None =>
            /\ Claimants(tdir, n) = {n}
            /\ tdir[n] = get_template(templates, n)

\* C2 (Spec): vm restart on a running VM that exits with status 0 has
\* stopped the VM and then started it: the stop call is followed by a create
\* call, and the VM is running with no shutdown still to come (so it is not
\* left shut off).
C2_RestartLeavesRunning ==
    (/\ last.op = "vm_restart" /\ last.exit = 0
     /\ last.calls # <<>> /\ last.calls[1] \in {"destroy", "shutdown"})
    => /\ last.calls = <<last.calls[1], "create">>
       /\ domains[last.name].exists
       /\ domains[last.name].state = VIR_DOMAIN_RUNNING
       /\ ~domains[last.name].pending

\* The cloud-init CD-ROMs in a device list, and the disks with target hda.
CloudInitCdroms(devs, n) == {i \in 1..Len(devs) : devs[i] = Cdrom(iso_path(n))}

HdaDisks(devs) == {i \in 1..Len(devs) : devs[i].target = "hda"}

\* C3 (SpecProvision): after any sequence of vm create, vm set-password and
\* vm fix-cloud-init, a VM's configuration (and the XML last handed to
\* defineXML for it) has at most one cloud-init CD-ROM and at most one disk
\* with target hda.
C3_AtMostOneCloudInitCdrom ==
    /\ \A n \in VMNames :
          /\ Cardinality(CloudInitCdroms(domains[n].devices, n)) <= 1
          /\ Cardinality(HdaDisks(domains[n].devices)) <= 1
    /\ Cardinality(CloudInitCdroms(last.xml, last.name)) <= 1
    /\ Cardinality(HdaDisks(last.xml)) <= 1

\* C4 (Spec): create_vm(name) on an existing domain raises ValueError,
\* makes no defineXML call and leaves every domain as it was; on a missing
\* name, when defineXML succeeds, it returns True and the domain exists.
C4_CreateVmNoSecondDomain ==
    [][last'.op = "create_vm" =>
        /\ vm_exists(domains, last'.name) =>
              /\ last'.ret = "ValueError"
              /\ last'.calls = <<>>
              /\ domains' = domains
        /\ ~vm_exists(domains, last'.name) =>
              /\ last'.calls = <<"defineXML">>
              /\ last'.ret \in {"True", "RuntimeError"}
              /\ last'.ret = "True" => vm_exists(domains', last'.name)
              /\ last'.ret = "RuntimeError" => domains' = domains
              /\ \A m \in VMNames \ {last'.name} : domains'[m] = domains[m]
    ]_vars

C4_Witness ==
    /\ last.op = "create_vm" /\ last.ret = "ValueError"
    /\ vm_exists(domains, last.name)

\* C5 (Spec): start_vm(name) on an active domain returns False with no
\* hypervisor call; on a defined, inactive domain it calls create once and
\* returns True (RuntimeError if the hypervisor rejects the call); on a
\* missing domain it raises RuntimeError; whenever it raises, no domain
\* changes.
C5_StartVm ==
    [][last'.op = "start_vm" =>
        /\ isActive(domains[last'.name]) =>
              /\ last'.ret = "False" /\ last'.calls = <<>>
              /\ domains' = domains
        /\ (vm_exists(domains, last'.name) /\ ~isActive(domains[last'.name])) =>
              /\ last'.calls = <<"create">>
              /\ last'.ret \in {"True", "RuntimeError"}
              /\ last'.ret = "True" => isActive(domains'[last'.name])
        /\ ~vm_exists(domains, last'.name) =>
              /\ last'.ret = "RuntimeError" /\ last'.calls = <<>>
        /\ last'.ret = "RuntimeError" => domains' = domains
        /\ \A m \in VMNames \ {last'.name} : domains'[m] = domains[m]
    ]_vars

C5_Witness ==
    /\ last.op = "start_vm" /\ last.ret = "False" /\ last.calls = <<>>
    /\ isActive(domains[last.name])

C7_SuspendOnlyRunning ==
    [][(/\ last'.op = "suspend_vm" /\ vm_exists(domains, last'.name)
        /\ last'.ret # "RuntimeError") =>
        /\ domains[last'.name].state \in {VIR_DOMAIN_SHUTOFF, VIR_DOMAIN_PAUSED} =>
              /\ last'.ret = "False"
              /\ last'.calls = <<>>
        /\ last'.ret = "True" =>
              /\ domains[last'.name].state \notin {VIR_DOMAIN_SHUTOFF, VIR_DOMAIN_PAUSED}
              /\ domains'[last'.name].state = VIR_DOMAIN_PAUSED
    ]_vars

C9_DeleteVm ==
    [][last'.op = "delete_vm" =>
        /\ (vm_exists(domains, last'.name) /\ last'.ret = "True") =>
              /\ last'.calls = IF isActive(domains[last'.name])
                               THEN <<"destroy", "undefine">>
                               ELSE <<"undefine">>
              /\ ~vm_exists(domains', last'.name)
              /\ last'.name \notin list_vms(domains')
        /\ (vm_exists(domains, last'.name) /\ last'.ret # "True") =>
              /\ last'.ret = "RuntimeError"
              /\ last'.calls \in IF isActive(domains[last'.name])
                                 THEN {<<"destroy">>, <<"destroy", "undefine">>}
                                 ELSE {<<"undefine">>}
        /\ ~vm_exists(domains, last'.name) =>
              /\ last'.ret = "RuntimeError" /\ last'.calls = <<>>
              /\ domains' = domains /\ disks' = disks
    ]_vars

C9_Witness ==
    /\ last.op = "delete_vm" /\ last.ret = "True"
    /\ last.calls = <<"destroy", "undefine">>
    /\ ~vm_exists(domains, last.name)

\* C10 (SpecProvision): when vm create NAME finds the VM or its disk, --force
\* is not given and the user declines, the command exits with status 0, has
\* issued no hypervisor call, and the domains and the disk files are exactly
\* as before.
C10_DeclinedCreateChangesNothing ==
    [][(last'.op = "vm_create" /\ last'.ret = "declined") =>
        /\ vm_exists(domains, last'.name) \/ disks[last'.name]
        /\ ~last'.force
        /\ last'.exit = 0
        /\ last'.calls = <<>>
        /\ domains' = domains
        /\ disks' = disks
    ]_vars

C10_Witness ==
    /\ last.op = "vm_create" /\ last.ret = "declined" /\ last.exit = 0
    /\ vm_exists(domains, last.name) /\ disks[last.name]


\* The state strings of claim C11.
C11_Table(code) ==
    CASE code = VIR_DOMAIN_RUNNING -> "running"
      [] code = VIR_DOMAIN_BLOCKED -> "idle"
      [] code = VIR_DOMAIN_PAUSED -> "paused"
      [] code = VIR_DOMAIN_SHUTDOWN -> "shutdown"
      [] code = VIR_DOMAIN_SHUTOFF -> "shutoff"
      [] code = VIR_DOMAIN_CRASHED -> "crashed"
      [] code = VIR_DOMAIN_PMSUSPENDED -> "pmsuspended"
      [] OTHER -> "unknown"

\* C11 (SpecQuery): list_vms and get_vm_info translate the state code with
\* the same total mapping: every entry of a listing that is not an error
\* entry, and every answer of get_vm_info, carries the string the table
\* gives for the domain's state code ("unknown" for a code outside the
\* table), and the listing's string is the one get_vm_info reports for that
\* domain.  (A step that changes shown is the query that filled it.)
C11_SameStateMapping ==
    [][/\ shown' # shown /\ shown'.op = "list_vms" =>
            \A i \in 1..Len(shown'.rows) :
                LET row == shown'.rows[i] IN
                row.state # "error" =>
                    /\ row.state = C11_Table(domains'[row.name].state)
                    /\ row.state = get_vm_info(domains', row.name)
       /\ shown' # shown /\ shown'.op = "get_vm_info" =>
            \A i \in 1..Len(shown'.rows) :
                LET row == shown'.rows[i] IN
                row.state = C11_Table(domains'[row.name].state)]_vars

\* A listing that reports a blocked domain as idle next to a domain whose
\* state code has no name.
C11_Witness ==
    /\ shown.op = "list_vms" /\ Len(shown.rows) = 2
    /\ shown.rows[1].state = "unknown" /\ shown.rows[2].state = "idle"
    /\ domains["cidata-vm"].state > VIR_DOMAIN_PMSUSPENDED
    /\ domains["web"].state = VIR_DOMAIN_BLOCKED

\* C12 (SpecQuery): list_vms returns exactly one entry for every domain
\* known to the hypervisor, running or merely defined, no name twice, in
\* the order of the names; a domain whose lookup or query fails has an
\* entry (with state 'error') and is not dropped.
C12_ListsEveryDomainOnce ==
    [][shown' # shown /\ shown'.op = "list_vms" =>
        LET rows == shown'.rows IN
        /\ {rows[i].name : i \in 1..Len(rows)}
              = {n \in VMNames : vm_exists(domains', n)}
        /\ \A i, j \in 1..Len(rows) : i < j =>
              \E a, b \in 1..Len(NameOrder) :
                 a < b /\ NameOrder[a] = rows[i].name
                       /\ NameOrder[b] = rows[j].name]_vars


C17_ViewNeverStale ==
    \E fresh \in load_templates(tdir) :
        /\ list_templates(templates) = list_templates(fresh)
        /\ \A n \in TNames : get_template(templates, n) = get_template(fresh, n)


\* C14 (SpecProvision): the disk file exists before it is used: a domain is
\* defined by vm create only after its disk image was created, so in no
\* reachable state is there a domain defined by vm create whose primary
\* disk file <storage>/NAME.qcow2 does not exist.
C14_DomainHasDisk ==
    \A n \in VMNames : vm_exists(domains, n) => disks[n]


\* C14 amended (SpecProvision): in every run of vm create NAME, defineXML
\* is called only after the disk image <storage>/NAME.qcow2 was created in
\* that run, so a run that got to call defineXML ends with the disk file
\* in place, and a run that reports the VM created leaves a domain with its
\* disk file.
C14_DefinedAfterDiskCreated ==
    [][last'.op = "vm_create" =>
        /\ (\E i \in 1..Len(last'.calls) : last'.calls[i] = "defineXML")
              => disks'[last'.name]
        /\ last'.ret = "created"
              => vm_exists(domains', last'.name) /\ disks'[last'.name]]_vars

\* vm create has just defined a domain, and its disk image is there.
C14_Witness ==
    /\ last.op = "vm_create" /\ last.ret = "created"
    /\ \E i \in 1..Len(last.calls) : last.calls[i] = "defineXML"
    /\ vm_exists(domains, last.name) /\ disks[last.name]


\* C15 (SpecCpu): set_cpu always removes automatic placement: after a
\* set_cpu call that got past the placement step and returned True or
\* raised the 'Cannot increase' error, the domain has a persistent
\* definition without placement='auto' on <vcpu> ('static' where it was
\* 'auto') and without it on <numatune>/<memory>, for running and stopped
\* VMs alike; and a definition read without any 'auto' placement is not
\* redefined by the placement step (the only defineXML is then the one that
\* raises the maximum, which a call returning True on a running VM never
\* issues).
C15_SetCpuRemovesAutoPlacement ==
    [][last'.op = "set_cpu" /\ last'.ret \in {"True", "CannotIncrease"} =>
        LET n == last'.name
            before == XMLDesc(domains, vcpus, n)
            after == vcpus'[n].config
            defines == {i \in 1..Len(last'.calls) : last'.calls[i] = "defineXML"}
        IN /\ domains'[n].exists /\ domains'[n].persistent
           /\ after.placement # "auto"
           /\ before.placement = "auto" => after.placement = "static"
           /\ after.numa # "auto"
           /\ before.placement # "auto" /\ before.numa # "auto" =>
                Cardinality(defines)
                  <= (IF last'.ret = "True" /\ isActive(domains[n]) THEN 0
                      ELSE 1)]_vars


\* C16 (SpecIso): create_cloud_init_iso tries the ISO tools in a fixed
\* order with fallback: genisoimage is run first when it is present;
\* mkisofs is run only when genisoimage is absent or its run has failed
\* (ended with a non-zero exit status); the call returns output_path
\* exactly when one tool run succeeded; and it raises RuntimeError when
\* neither tool is installed or every installed tool has failed.
C16_IsoToolFallback ==
    [][isofs'.op = "create_cloud_init_iso" =>
        LET runs == isofs'.runs
            Ran(t) == \E i \in 1..Len(runs) : runs[i].tool = t
            Failed(t) == \E i \in 1..Len(runs) :
                            runs[i].tool = t /\ runs[i].outcome = "nonzero"
            Succeeded == \E i \in 1..Len(runs) : runs[i].outcome = "ok"
        IN /\ isofs.genisoimage =>
                 runs # <<>> /\ runs[1].tool = "genisoimage"
           /\ Ran("mkisofs") =>
                 /\ isofs.mkisofs
                 /\ ~isofs.genisoimage \/ Failed("genisoimage")
           /\ Ran("genisoimage") /\ Ran("mkisofs") =>
                 Len(runs) = 2 /\ runs[2].tool = "mkisofs"
           /\ (isofs'.ret = isofs'.out) <=> Succeeded
           /\ Succeeded => runs[Len(runs)].outcome = "ok"
           /\ (/\ isofs.genisoimage => Failed("genisoimage")
               /\ isofs.mkisofs => Failed("mkisofs"))
                 => isofs'.ret = "RuntimeError"]_vars

\* genisoimage failed, mkisofs was run instead and made the ISO.
C16_Witness ==
    /\ isofs.op = "create_cloud_init_iso"
    /\ isofs.runs = <<ToolRun("genisoimage", "nonzero"), ToolRun("mkisofs", "ok")>>
    /\ isofs.ret = isofs.out /\ isofs.out \in isofs.files

====
